---------------------------- MODULE Spec2Model ----------------------------
(***************************************************************************)
(* Model of src/app.py: the /predict-next request of the stock price       *)
(* prediction API.  One request resolves the venue of the ticker, fetches  *)
(* and cleans the daily bars, selects the previous completed daily row,    *)
(* advances to the next trading date and builds the response.              *)
(*                                                                         *)
(* Representation.                                                         *)
(*   - A string is a sequence of one-character strings.                    *)
(*   - The clock `now` is what datetime.now(tz) returns for the venue of   *)
(*     the request, as minutes since 00:00 of a Monday (day 0).  Every     *)
(*     read of the clock in one request uses the same tz.                  *)
(*   - A date is a day number; day 0 is a Monday, so d % 7 is Python's     *)
(*     date.weekday() (Monday = 0 .. Sunday = 6).                          *)
(*   - A time of day is the minute of the day, time(h, m) = 60 h + m.      *)
(*   - A bar is one row of the DataFrame: the date of its index and the    *)
(*     columns Open, High, Low, Close, Volume; NaN is a missing value.     *)
(***************************************************************************)
EXTENDS Integers, Sequences, FiniteSets

VARIABLES
    arg,          \* request.args.get("symbol"): the raw query parameter
    raw,          \* what yf.Ticker(symbol).history(...) returns for the request
    now,          \* the venue-local wall clock
    t_request,    \* the clock when the request arrived (history variable)
    pc,           \* position of the handler
    symbol,       \* predict_next: symbol
    df,           \* predict_next: df (<<>> stands for None and for empty)
    local_today,  \* _previous_completed_daily_row: local_today
    idx,          \* predict_next: idx (the date of the selected index entry)
    prev_row,     \* predict_next: prev_row
    d,            \* _next_trading_date: d
    adds,         \* number of timedelta(days=1) additions made to d
    target_date,  \* predict_next: target_date
    info,         \* the tuple returned by _venue_info / _is_market_open_now
    status,       \* HTTP status of the response (0: none yet)
    payload       \* the JSON body of the response

vars == << arg, raw, now, t_request, pc, symbol, df, local_today, idx,
           prev_row, d, adds, target_date, info, status, payload >>

---------------------------------------------------------------------------
(* Bounds of the model *)

\* dates of the bars and of the clock range over 0..MaxDate
MaxDate == 3
\* longest series the source returns
MaxBars == 3
\* largest from-date handed to _next_trading_date on its own
MaxFromDate == 13
\* cap of the day additions of the while loop (the loop has no bound itself)
MaxAdds == 9

---------------------------------------------------------------------------
(* Strings *)

Lowercase == << "a","b","c","d","e","f","g","h","i","j","k","l","m",
                "n","o","p","q","r","s","t","u","v","w","x","y","z" >>
Uppercase == << "A","B","C","D","E","F","G","H","I","J","K","L","M",
                "N","O","P","Q","R","S","T","U","V","W","X","Y","Z" >>

UpperChar(c) ==
    IF \E i \in 1..Len(Lowercase) : Lowercase[i] = c
    THEN Uppercase[CHOOSE i \in 1..Len(Lowercase) : Lowercase[i] = c]
    ELSE c

LowerChar(c) ==
    IF \E i \in 1..Len(Uppercase) : Uppercase[i] = c
    THEN Lowercase[CHOOSE i \in 1..Len(Uppercase) : Uppercase[i] = c]
    ELSE c

\* a mutant of Upper: the ticker is not upper-cased
UpperIdentity(s) == s

\* str.upper()
Upper(s) == [i \in 1..Len(s) |-> UpperChar(s[i])]

\* str.endswith(suf)
EndsWith(s, suf) ==
    /\ Len(s) >= Len(suf)
    /\ SubSeq(s, Len(s) - Len(suf) + 1, Len(s)) = suf

RECURSIVE LStrip(_)
LStrip(s) == IF s # << >> /\ Head(s) = " " THEN LStrip(Tail(s)) ELSE s

RECURSIVE RStrip(_)
RStrip(s) ==
    IF s # << >> /\ s[Len(s)] = " " THEN RStrip(SubSeq(s, 1, Len(s) - 1)) ELSE s

\* str.strip()
Strip(s) == RStrip(LStrip(s))

---------------------------------------------------------------------------
(* Venue rules: timezone, hours, workweek *)

\* a mutant of MON_FRI: a venue that is never open
MON_FRI_Never == {}

MON_FRI == {0, 1, 2, 3, 4}
SUN_THU == {6, 0, 1, 2, 3}

EXCHANGES == <<
  [suf |-> <<".","N","S">>, tz |-> "Asia/Kolkata",     start |-> <<9,15>>,  end |-> <<15,30>>, open_days |-> MON_FRI, venue |-> "NSE"],
  [suf |-> <<".","B","O">>, tz |-> "Asia/Kolkata",     start |-> <<9,15>>,  end |-> <<15,30>>, open_days |-> MON_FRI, venue |-> "BSE"],
  [suf |-> <<".","N","Y">>, tz |-> "US/Eastern",       start |-> <<9,30>>,  end |-> <<16,0>>,  open_days |-> MON_FRI, venue |-> "NYSE"],
  [suf |-> <<".","O">>,     tz |-> "US/Eastern",       start |-> <<9,30>>,  end |-> <<16,0>>,  open_days |-> MON_FRI, venue |-> "NASDAQ"],
  [suf |-> <<".","L">>,     tz |-> "Europe/London",    start |-> <<8,0>>,   end |-> <<16,30>>, open_days |-> MON_FRI, venue |-> "LSE"],
  [suf |-> <<".","H","K">>, tz |-> "Asia/Hong_Kong",   start |-> <<9,30>>,  end |-> <<16,0>>,  open_days |-> MON_FRI, venue |-> "HKEX"],
  [suf |-> <<".","T">>,     tz |-> "Asia/Tokyo",       start |-> <<9,0>>,   end |-> <<15,0>>,  open_days |-> MON_FRI, venue |-> "TSE"],
  [suf |-> <<".","S","S">>, tz |-> "Asia/Shanghai",    start |-> <<9,30>>,  end |-> <<15,0>>,  open_days |-> MON_FRI, venue |-> "SSE"],
  [suf |-> <<".","S","Z">>, tz |-> "Asia/Shanghai",    start |-> <<9,30>>,  end |-> <<15,0>>,  open_days |-> MON_FRI, venue |-> "SZSE"],
  [suf |-> <<".","T","O">>, tz |-> "America/Toronto",  start |-> <<9,30>>,  end |-> <<16,0>>,  open_days |-> MON_FRI, venue |-> "TSX"],
  [suf |-> <<".","A","X">>, tz |-> "Australia/Sydney", start |-> <<10,0>>,  end |-> <<16,0>>,  open_days |-> MON_FRI, venue |-> "ASX"],
  [suf |-> <<".","N","Z">>, tz |-> "Pacific/Auckland", start |-> <<10,0>>,  end |-> <<16,45>>, open_days |-> MON_FRI, venue |-> "NZX"],
  [suf |-> <<".","S","A">>, tz |-> "America/Sao_Paulo",start |-> <<10,0>>,  end |-> <<17,30>>, open_days |-> MON_FRI, venue |-> "B3"],
  [suf |-> <<".","F">>,     tz |-> "Europe/Berlin",    start |-> <<8,0>>,   end |-> <<20,0>>,  open_days |-> MON_FRI, venue |-> "Xetra"],
  [suf |-> <<".","P","A">>, tz |-> "Europe/Paris",     start |-> <<9,0>>,   end |-> <<17,30>>, open_days |-> MON_FRI, venue |-> "Euronext Paris"],
  [suf |-> <<".","M","I">>, tz |-> "Europe/Rome",      start |-> <<9,0>>,   end |-> <<17,30>>, open_days |-> MON_FRI, venue |-> "Borsa Italiana"],
  [suf |-> <<".","S","W">>, tz |-> "Europe/Zurich",    start |-> <<9,0>>,   end |-> <<17,30>>, open_days |-> MON_FRI, venue |-> "SIX"],
  [suf |-> <<".","V","X">>, tz |-> "Europe/Zurich",    start |-> <<9,0>>,   end |-> <<17,30>>, open_days |-> MON_FRI, venue |-> "SIX"],
  [suf |-> <<".","K","S">>, tz |-> "Asia/Seoul",       start |-> <<9,0>>,   end |-> <<15,30>>, open_days |-> MON_FRI, venue |-> "KRX"],
  [suf |-> <<".","K","Q">>, tz |-> "Asia/Seoul",       start |-> <<9,0>>,   end |-> <<15,30>>, open_days |-> MON_FRI, venue |-> "KOSDAQ"],
  [suf |-> <<".","T","W">>, tz |-> "Asia/Taipei",      start |-> <<9,0>>,   end |-> <<13,30>>, open_days |-> MON_FRI, venue |-> "TWSE"],
  [suf |-> <<".","S","I">>, tz |-> "Asia/Singapore",   start |-> <<9,0>>,   end |-> <<17,0>>,  open_days |-> MON_FRI, venue |-> "SGX"],
  [suf |-> <<".","B","K">>, tz |-> "Asia/Bangkok",     start |-> <<10,0>>,  end |-> <<16,30>>, open_days |-> MON_FRI, venue |-> "SET"],
  [suf |-> <<".","S","R">>, tz |-> "Asia/Riyadh",      start |-> <<10,0>>,  end |-> <<15,0>>,  open_days |-> SUN_THU, venue |-> "Tadawul"]
>>

\* datetime.time(h, m) as the minute of the day
Time(h, m) == h * 60 + m

\* the index of the first entry of EXCHANGES, from i on, whose suffix ends s;
\* 0 when the for loop runs off the table
RECURSIVE FirstSuffix(_, _)
FirstSuffix(s, i) ==
    IF i > Len(EXCHANGES) THEN 0
    ELSE IF EndsWith(s, EXCHANGES[i].suf) THEN i
    ELSE FirstSuffix(s, i + 1)

\* _venue_info(symbol): (venue, tz, start, end, open_days)
venue_info(sym) ==
    LET s == Upper(sym)
        i == FirstSuffix(s, 1)
    IN  IF i # 0
        THEN [venue     |-> EXCHANGES[i].venue,
              tz        |-> EXCHANGES[i].tz,
              start     |-> Time(EXCHANGES[i].start[1], EXCHANGES[i].start[2]),
              end       |-> Time(EXCHANGES[i].end[1], EXCHANGES[i].end[2]),
              open_days |-> EXCHANGES[i].open_days]
        ELSE [venue     |-> "US",
              tz        |-> "US/Eastern",
              start     |-> Time(9, 30),
              end       |-> Time(16, 0),
              open_days |-> MON_FRI]

---------------------------------------------------------------------------
(* The clock *)

\* datetime.date() of a clock value
DateOf(t) == t \div (24 * 60)
\* datetime.time() of a clock value
TimeOf(t) == t % (24 * 60)
\* date.weekday()
Weekday(day) == day % 7

\* how far the wall clock moves between two reads of it (minutes)
ClockAdvance == {0, 1}

\* a mutant of is_market_open_now: the session end is not tested
is_market_open_now_NoEnd(sym, t) ==
    LET v == venue_info(sym)
    IN  [venue |-> v.venue, tz |-> v.tz, start |-> v.start, end |-> v.end,
         open_days |-> v.open_days,
         open_now |-> (Weekday(DateOf(t)) \in v.open_days) /\ (v.start <= TimeOf(t))]

\* _is_market_open_now(symbol), the clock reading t
is_market_open_now(sym, t) ==
    LET v == venue_info(sym)
    IN  [venue |-> v.venue, tz |-> v.tz, start |-> v.start, end |-> v.end,
         open_days |-> v.open_days,
         open_now |-> (Weekday(DateOf(t)) \in v.open_days)
                         /\ (v.start <= TimeOf(t) /\ TimeOf(t) <= v.end)]

---------------------------------------------------------------------------
(* Bars *)

\* a missing value of a DataFrame cell (float NaN); every price is >= 0
NaN == -1
\* Python's None, for an index entry
None == -1
\* Python's None, for a row
NoneRow == [date |-> None, Open |-> NaN, High |-> NaN, Low |-> NaN,
            Close |-> NaN, Volume |-> NaN]

\* a bar of the source with every column present
FullBar(day) ==
    [date |-> day, Open |-> 10, High |-> 12, Low |-> 9, Close |-> 11, Volume |-> 500]

Columns == {"Open", "High", "Low", "Close", "Volume"}

\* a bar of the source whose column `missing` is NaN ("" : none is)
BarMissing(day, missing) ==
    [FullBar(day) EXCEPT
        !.Open   = IF missing = "Open"   THEN NaN ELSE @,
        !.High   = IF missing = "High"   THEN NaN ELSE @,
        !.Low    = IF missing = "Low"    THEN NaN ELSE @,
        !.Close  = IF missing = "Close"  THEN NaN ELSE @,
        !.Volume = IF missing = "Volume" THEN NaN ELSE @]

\* a mutant of fetch_recent_daily: rows are not dropped at all
fetch_recent_daily_NoDrop(r) == r

\* _fetch_recent_daily(symbol), r being what t.history(...) returned:
\* df[cols].dropna(subset=["Close"]); None when nothing is left
fetch_recent_daily(r) ==
    IF r = << >> THEN << >>
    ELSE SelectSeq(r, LAMBDA b : b.Close # NaN)

\* a mutant of previous_completed_daily_row: never steps back
previous_completed_daily_row_NoStepBack(frame, today, tod, end) ==
    IF frame = << >> THEN [idx |-> None, row |-> NoneRow]
    ELSE [idx |-> frame[Len(frame)].date, row |-> frame[Len(frame)]]

\* a mutant of previous_completed_daily_row: a lone bar of today is refused
previous_completed_daily_row_NoFallback(frame, today, tod, end) ==
    IF frame = << >> THEN [idx |-> None, row |-> NoneRow]
    ELSE IF frame[Len(frame)].date = today /\ tod < end
         THEN IF Len(frame) >= 2
              THEN [idx |-> frame[Len(frame) - 1].date, row |-> frame[Len(frame) - 1]]
              ELSE [idx |-> None, row |-> NoneRow]
         ELSE [idx |-> frame[Len(frame)].date, row |-> frame[Len(frame)]]

\* a mutant of previous_completed_daily_row: steps back whenever it can
previous_completed_daily_row_AlwaysBack(frame, today, tod, end) ==
    IF frame = << >> THEN [idx |-> None, row |-> NoneRow]
    ELSE IF Len(frame) >= 2
         THEN [idx |-> frame[Len(frame) - 1].date, row |-> frame[Len(frame) - 1]]
         ELSE [idx |-> frame[Len(frame)].date, row |-> frame[Len(frame)]]

\* _previous_completed_daily_row(df, symbol): the selection, given the value
\* `today` of local_today, the value `tod` of datetime.now(tz).time() and the
\* session end of the venue
previous_completed_daily_row(frame, today, tod, end) ==
    IF frame = << >> THEN [idx |-> None, row |-> NoneRow]
    ELSE LET last_idx == frame[Len(frame)].date
         IN  IF last_idx = today /\ tod < end
             THEN IF Len(frame) >= 2
                  THEN [idx |-> frame[Len(frame) - 1].date, row |-> frame[Len(frame) - 1]]
                  ELSE [idx |-> frame[Len(frame)].date, row |-> frame[Len(frame)]]
             ELSE [idx |-> frame[Len(frame)].date, row |-> frame[Len(frame)]]

\* predict_next_close_from_prev(prev_row)
predict_next_close_from_prev(row) == row.Close

---------------------------------------------------------------------------
(* The inputs of a request *)

\* the default of the query parameter
DefaultSymbol == <<"R","E","L","I","A","N","C","E",".","N","S">>

\* query parameters of the requests: absent, a Sun-Thu venue in lower case
\* with blanks around it, and a ticker without a known suffix
RequestArgs == { << >>, <<" ","a",".","s","r"," ">>, <<"A">> }

\* predict_next: (request.args.get("symbol") or "RELIANCE.NS").strip().upper()
RequestSymbol(a) == Upper(Strip(IF a = << >> THEN DefaultSymbol ELSE a))

\* series in chronological order (dates may repeat) of complete bars
CompleteSeries ==
    { s \in UNION { [1..n -> { FullBar(day) : day \in 0..MaxDate }] : n \in 0..MaxBars } :
        \A i \in 1..(Len(s) - 1) : s[i].date <= s[i + 1].date }

\* series of one or two bars in which a bar may miss one column
SparseSeries ==
    { << BarMissing(1, m) >> : m \in Columns }
    \cup { << BarMissing(1, m1), BarMissing(2, m2) >> :
              m1 \in Columns \cup {""}, m2 \in Columns \cup {""} }

SourceSeries == CompleteSeries \cup SparseSeries

\* the times of day a request arrives at: 10:00, the minute before the
\* session end, the session end, the last minute of the day
ArrivalTimes(end) == { Time(10, 0), end - 1, end, Time(23, 59) }

\* the tickers _venue_info is applied to on its own: every suffix of the
\* table in upper, lower and mixed case behind three stems, and tails
\* that match no suffix
Stems == { << >>, <<"A">>, <<"a","b">> }
LowerOf(s) == [i \in 1..Len(s) |-> LowerChar(s[i])]
MixedOf(s) == [i \in 1..Len(s) |-> IF i = 2 THEN LowerChar(s[i]) ELSE s[i]]
Tails ==
    UNION { { EXCHANGES[i].suf, LowerOf(EXCHANGES[i].suf), MixedOf(EXCHANGES[i].suf) } :
              i \in 1..Len(EXCHANGES) }
    \cup { << >>, <<".","X">>, <<"N","S">>, <<".","N">>, <<".","N","S","E">>,
           <<".","n","s"," ">>, <<"-","N","S">>, <<".">> }
Tickers == { stem \o tail : stem \in Stems, tail \in Tails }

\* the upper-case tickers of every venue of the table, and one of the default
VenueSymbols ==
    { <<"A">> \o EXCHANGES[i].suf : i \in 1..Len(EXCHANGES) } \cup { <<"A">> }

---------------------------------------------------------------------------
(* The request handler predict_next, step by step *)

\* the locals of the handler before it has run
Idle ==
    /\ df = << >> /\ local_today = None
    /\ prev_row = NoneRow /\ d = None /\ adds = 0 /\ target_date = None
    /\ info = [venue |-> "", tz |-> "", start |-> 0, end |-> 0,
               open_days |-> {}, open_now |-> FALSE]
    /\ status = 0 /\ payload = [error |-> ""]

Init ==
    /\ arg \in RequestArgs
    /\ raw \in SourceSeries
    /\ now \in { day * (24 * 60) + t :
                   day \in 0..MaxDate,
                   t \in ArrivalTimes(venue_info(RequestSymbol(arg)).end) }
    /\ t_request = now
    /\ pc = "predict_next"
    /\ symbol = << >> /\ idx = None
    /\ Idle

\* lines 237-240: symbol, df = _fetch_recent_daily(symbol), 404 when None
predict_next_fetch ==
    /\ pc = "predict_next"
    /\ symbol' = RequestSymbol(arg)
    /\ df' = fetch_recent_daily(raw)
    /\ IF df' = << >>
       THEN /\ status' = 404
            /\ payload' = [error |-> "no OHLC available for symbol"]
            /\ pc' = "done"
       ELSE /\ pc' = "prev_market_open"
            /\ UNCHANGED << status, payload >>
    /\ UNCHANGED << arg, raw, now, t_request, local_today, idx, prev_row, d,
                    adds, target_date, info >>

\* lines 91-92 (and 243-244): the empty test of _previous_completed_daily_row,
\* then its call of _is_market_open_now, which reads the clock
prev_market_open ==
    /\ pc = "prev_market_open"
    /\ IF df = << >>
       THEN /\ status' = 404
            /\ payload' = [error |-> "insufficient data"]
            /\ pc' = "done"
            /\ UNCHANGED << now, info >>
       ELSE /\ \E delta \in ClockAdvance : now' = now + delta
            /\ info' = is_market_open_now(symbol, now')
            /\ pc' = "prev_local_today"
            /\ UNCHANGED << status, payload >>
    /\ UNCHANGED << arg, raw, t_request, symbol, df, local_today, idx, prev_row,
                    d, adds, target_date >>

\* line 93: local_today = datetime.now(tz).date()
prev_local_today ==
    /\ pc = "prev_local_today"
    /\ \E delta \in ClockAdvance : now' = now + delta
    /\ local_today' = DateOf(now')
    /\ pc' = "prev_select"
    /\ UNCHANGED << arg, raw, t_request, symbol, df, idx, prev_row, d, adds,
                    target_date, info, status, payload >>

\* lines 94-103 (and 242-244): the third read of the clock and the selection
prev_select ==
    /\ pc = "prev_select"
    /\ \E delta \in ClockAdvance : now' = now + delta
    /\ LET r == previous_completed_daily_row(df, local_today, TimeOf(now'), info.end)
       IN  /\ idx' = r.idx
           /\ prev_row' = r.row
           /\ IF r.idx = None
              THEN /\ status' = 404
                   /\ payload' = [error |-> "insufficient data"]
                   /\ pc' = "done"
              ELSE /\ pc' = "next_trading_date"
                   /\ UNCHANGED << status, payload >>
    /\ UNCHANGED << arg, raw, t_request, symbol, df, local_today, d, adds,
                    target_date, info >>

\* a mutant of next_trading_date_enter: the first day is not added
next_trading_date_enter_SameDay ==
    /\ pc = "next_trading_date"
    /\ \E delta \in ClockAdvance : now' = now + delta
    /\ info' = is_market_open_now(symbol, now')
    /\ d' = idx
    /\ adds' = 0
    /\ pc' = "next_trading_loop"
    /\ UNCHANGED << arg, raw, t_request, symbol, df, local_today, idx, prev_row,
                    target_date, status, payload >>

\* lines 106-107: _next_trading_date reads the venue (and the clock), d = date + 1
next_trading_date_enter ==
    /\ pc = "next_trading_date"
    /\ \E delta \in ClockAdvance : now' = now + delta
    /\ info' = is_market_open_now(symbol, now')
    /\ d' = idx + 1
    /\ adds' = 1
    /\ pc' = "next_trading_loop"
    /\ UNCHANGED << arg, raw, t_request, symbol, df, local_today, idx, prev_row,
                    target_date, status, payload >>

\* lines 108-109: one turn of the while loop
next_trading_date_step ==
    /\ pc = "next_trading_loop"
    /\ Weekday(d) \notin info.open_days
    /\ adds < MaxAdds
    /\ d' = d + 1
    /\ adds' = adds + 1
    /\ UNCHANGED << arg, raw, now, t_request, pc, symbol, df, local_today, idx,
                    prev_row, target_date, info, status, payload >>

\* line 110 (and 246): the loop ends, target_date = datetime(d.year, d.month, d.day)
next_trading_date_return ==
    /\ pc = "next_trading_loop"
    /\ Weekday(d) \in info.open_days
    /\ target_date' = d
    /\ pc' = "market_meta"
    /\ UNCHANGED << arg, raw, now, t_request, symbol, df, local_today, idx,
                    prev_row, d, adds, info, status, payload >>

\* lines 247-277: the last read of the clock and the response
\* (evaluated_at_utc, a UTC reading of the same clock, is left out of the body)
predict_next_respond ==
    /\ pc = "market_meta"
    /\ \E delta \in ClockAdvance : now' = now + delta
    /\ info' = is_market_open_now(symbol, now')
    /\ payload' =
         [symbol |-> symbol,
          previous_day |->
             [date   |-> idx,
              open   |-> prev_row.Open,
              high   |-> prev_row.High,
              low    |-> prev_row.Low,
              close  |-> prev_row.Close,
              volume |-> IF prev_row.Volume # NaN THEN prev_row.Volume ELSE 0],
          prediction |->
             [target_date     |-> target_date,
              predicted_close |-> predict_next_close_from_prev(prev_row),
              method          |-> "previous_day_model"],
          market_meta |->
             [venue           |-> info'.venue,
              market_open_now |-> info'.open_now,
              market_status   |-> IF info'.open_now THEN "Open" ELSE "Closed",
              local_tz        |-> info'.tz,
              hours_local     |-> [start     |-> info'.start,
                                   end       |-> info'.end,
                                   open_days |-> info'.open_days]]]
    /\ status' = 200
    /\ pc' = "done"
    /\ UNCHANGED << arg, raw, t_request, symbol, df, local_today, idx, prev_row,
                    d, adds, target_date >>

Next ==
    \/ predict_next_fetch
    \/ prev_market_open
    \/ prev_local_today
    \/ prev_select
    \/ next_trading_date_enter
    \/ next_trading_date_step
    \/ next_trading_date_return
    \/ predict_next_respond

Spec == Init /\ [][Next]_vars

---------------------------------------------------------------------------
(* _next_trading_date on its own: every venue, every weekday of the from-date *)

InitCal ==
    /\ arg = << >> /\ raw = << >>
    /\ now = 0 /\ t_request = 0
    /\ pc = "next_trading_date"
    /\ symbol \in VenueSymbols
    /\ idx \in 0..MaxFromDate
    /\ Idle

NextCal ==
    \/ next_trading_date_enter
    \/ next_trading_date_step
    \/ next_trading_date_return

SpecCal == InitCal /\ [][NextCal]_vars

---------------------------------------------------------------------------
(* _venue_info on its own: tickers in any letter case *)

InitVenue ==
    /\ arg = << >> /\ raw = << >>
    /\ now = 0 /\ t_request = 0
    /\ pc = "venue_info"
    /\ symbol \in Tickers
    /\ idx = None
    /\ Idle

\* lines 64-73: one call of _venue_info
venue_info_call ==
    /\ pc = "venue_info"
    /\ LET v == venue_info(symbol)
       IN  info' = [venue |-> v.venue, tz |-> v.tz, start |-> v.start, end |-> v.end,
                    open_days |-> v.open_days, open_now |-> FALSE]
    /\ pc' = "venue_info_returned"
    /\ UNCHANGED << arg, raw, now, t_request, symbol, df, local_today, idx,
                    prev_row, d, adds, target_date, status, payload >>

NextVenue == venue_info_call

SpecVenue == InitVenue /\ [][NextVenue]_vars

---------------------------------------------------------------------------
(* Properties *)

StrictlyIncreasing(s) == \A i \in 1..(Len(s) - 1) : s[i].date < s[i + 1].date

HasBarBefore(s, today) == \E i \in 1..Len(s) : s[i].date < today

\* x is the earliest date strictly after `from` whose weekday is in open_days
IsEarliestOpenAfter(x, from, open_days) ==
    /\ x > from
    /\ Weekday(x) \in open_days
    /\ \A y \in (from + 1)..(x - 1) : Weekday(y) \notin open_days

\* the selection has just returned a bar: `now` is still the clock value
\* that line 96 compared with the session end
JustSelected == pc = "next_trading_date"

Responded == pc = "done" /\ status = 200

\* C1: for a series with strictly increasing dates that has a bar dated
\* before venue-local today, when the venue-local time of day is before the
\* session end, the selected bar is never dated venue-local today.
C1_NoTodayBarBeforeClose ==
    ( /\ JustSelected
      /\ StrictlyIncreasing(df)
      /\ HasBarBefore(df, local_today)
      /\ TimeOf(now) < info.end )
    => idx # local_today

\* C1 witness: the last bar is dated today, the session has not ended, and
\* the selection stepped back to the bar before it.
C1_Witness ==
    /\ JustSelected
    /\ StrictlyIncreasing(df)
    /\ Len(df) >= 2
    /\ df[Len(df)].date = local_today
    /\ TimeOf(now) < info.end
    /\ now = t_request
    /\ idx = df[Len(df) - 1].date
    /\ idx < local_today

\* C2: the selected bar is never dated strictly after venue-local today.
C2_NeverAfterToday == JustSelected => idx <= DateOf(now)

\* C3: _next_trading_date returns the earliest date strictly after the
\* from-date whose weekday is in the venue's open-weekday set; on a Mon-Fri
\* venue a Friday and a Saturday both give the following Monday.
C3_EarliestOpenDate ==
    pc = "market_meta" =>
        /\ info.open_days \in {MON_FRI, SUN_THU}
        /\ IsEarliestOpenAfter(target_date, idx, info.open_days)
        /\ (info.open_days = MON_FRI /\ Weekday(idx) \in {4, 5}) =>
               /\ Weekday(target_date) = 0
               /\ target_date = idx + (7 - Weekday(idx))

\* C3 witness: a Friday on a Mon-Fri venue has given the Monday three days on.
C3_Witness ==
    /\ pc = "market_meta"
    /\ info.open_days = MON_FRI
    /\ Weekday(idx) = 4
    /\ target_date = idx + 3

\* two characters are the same letter, whatever their case
SameLetter(c1, c2) ==
    \/ c1 = c2
    \/ \E i \in 1..Len(Lowercase) : {c1, c2} = {Lowercase[i], Uppercase[i]}

\* the suffix of entry i equals the trailing characters of s, case-insensitively
SuffixMatches(s, i) ==
    LET suf == EXCHANGES[i].suf
    IN  /\ Len(s) >= Len(suf)
        /\ \A k \in 1..Len(suf) : SameLetter(s[Len(s) - Len(suf) + k], suf[k])

\* C4: _venue_info returns the venue of the first entry of EXCHANGES, in
\* declaration order, whose suffix equals the ticker's trailing characters
\* case-insensitively, and the default venue (US/Eastern, Mon-Fri,
\* 09:30-16:00) when no suffix matches; it always returns a venue.
C4_VenueInfoTotal ==
    pc = "venue_info_returned" =>
        LET hits == { i \in 1..Len(EXCHANGES) : SuffixMatches(symbol, i) }
        IN  IF hits # {}
            THEN LET i == CHOOSE j \in hits : \A k \in hits : j <= k
                 IN  /\ info.venue = EXCHANGES[i].venue
                     /\ info.tz = EXCHANGES[i].tz
                     /\ info.start = 60 * EXCHANGES[i].start[1] + EXCHANGES[i].start[2]
                     /\ info.end = 60 * EXCHANGES[i].end[1] + EXCHANGES[i].end[2]
                     /\ info.open_days = EXCHANGES[i].open_days
            ELSE /\ info.venue = "US"
                 /\ info.tz = "US/Eastern"
                 /\ info.start = 570
                 /\ info.end = 960
                 /\ info.open_days = {0, 1, 2, 3, 4}

\* C4 witness: a lower-case ticker has been resolved to its venue.
C4_Witness ==
    /\ pc = "venue_info_returned"
    /\ symbol = <<"a","b",".","n","s">>
    /\ info.venue = "NSE"
    /\ info.tz = "Asia/Kolkata"

\* C5: the request finds no bar if and only if the cleaned series is empty;
\* for a non-empty series the selected bar is a member of the series, and a
\* single bar dated today before the session end is itself returned.
C5_NotFoundIffEmpty ==
    /\ pc = "done" => ((idx = None) <=> (df = << >>))
    /\ pc = "done" => ((status = 404) <=> (df = << >>))
    /\ (pc \in {"next_trading_date", "next_trading_loop", "market_meta"} \/ Responded) =>
           \E k \in 1..Len(df) : df[k] = prev_row /\ df[k].date = idx
    /\ ( /\ JustSelected
         /\ Len(df) = 1
         /\ df[1].date = local_today
         /\ TimeOf(now) < info.end ) => prev_row = df[1]
    /\ JustSelected =>
           previous_completed_daily_row(<< >>, local_today, TimeOf(now), info.end)
               = [idx |-> None, row |-> NoneRow]

\* C5 witness: the only bar is dated today, the session has not ended, and
\* that bar was selected.
C5_Witness ==
    /\ JustSelected
    /\ Len(df) = 1
    /\ df[1].date = local_today
    /\ TimeOf(now) < info.end
    /\ prev_row = df[1]
    /\ idx = local_today

HasOHLC(b) == b.Open # NaN /\ b.High # NaN /\ b.Low # NaN /\ b.Close # NaN

\* C6: every bar that reaches the selection, and the bar of the response,
\* has open, high, low and close all present.
C6_SelectedBarHasOHLC ==
    /\ pc # "predict_next" => \A k \in 1..Len(df) : HasOHLC(df[k])
    /\ Responded =>
           /\ payload.previous_day.open # NaN
           /\ payload.previous_day.high # NaN
           /\ payload.previous_day.low # NaN
           /\ payload.previous_day.close # NaN

\* C7: the selected bar is the bar the selection rule yields for one single
\* instant within the request, even when the clock advances between the
\* reads of it.
C7_OneInstant ==
    JustSelected =>
        \E t \in t_request..now :
            previous_completed_daily_row(df, DateOf(t), TimeOf(t), info.end)
                = [idx |-> idx, row |-> prev_row]

Dates(s) == [i \in 1..Len(s) |-> s[i].date]

\* C8: for a non-empty series with strictly increasing dates whose last bar
\* is dated before venue-local today, the request selects the last bar and
\* targets the next open date after it; bars of Mon, Tue, Wed on a Thursday
\* on a Mon-Fri venue give the Wednesday bar and Thursday.
C8_LastBarAndNextOpen ==
    /\ ( /\ Responded
         /\ StrictlyIncreasing(df)
         /\ df[Len(df)].date < local_today ) =>
           /\ prev_row = df[Len(df)]
           /\ idx = df[Len(df)].date
           /\ payload.previous_day.date = idx
           /\ IsEarliestOpenAfter(target_date, idx, info.open_days)
           /\ payload.prediction.target_date = target_date
    /\ ( /\ Responded
         /\ Dates(df) = <<0, 1, 2>>
         /\ local_today = 3
         /\ info.open_days = MON_FRI ) =>
           /\ payload.previous_day.date = 2
           /\ payload.prediction.target_date = 3

\* C8 witness: bars of Mon, Tue, Wed, the request made on Thursday 10:00 on a
\* Mon-Fri venue, answered with the Wednesday bar and Thursday.
C8_Witness ==
    /\ Responded
    /\ Dates(df) = <<0, 1, 2>>
    /\ t_request = 3 * (24 * 60) + Time(10, 0)
    /\ now = t_request
    /\ local_today = 3
    /\ info.open_days = MON_FRI
    /\ payload.previous_day.date = 2
    /\ payload.prediction.target_date = 3

\* C9: the while loop of _next_trading_date ends after at most 7 day
\* additions: the open-weekday set of the venue is non-empty and holds
\* weekday numbers 0..6 only.
C9_LoopWithinSevenDays ==
    /\ adds <= 7
    /\ pc \in {"next_trading_loop", "market_meta"} =>
           /\ info.open_days # {}
           /\ info.open_days \subseteq 0..6
    /\ pc = "next_trading_loop" =>
           (Weekday(d) \in info.open_days \/ adds < 7)
    /\ pc = "market_meta" => d = idx + adds

\* C9 witness: the loop has ended after three additions, the most a venue of
\* the table needs.
C9_Witness ==
    /\ pc = "market_meta"
    /\ adds = 3
    /\ target_date = idx + 3

\* the response was built from a series with strictly increasing dates that
\* has a bar dated before today, the clock standing still during the request
C10_Case ==
    /\ Responded
    /\ now = t_request
    /\ StrictlyIncreasing(df)
    /\ HasBarBefore(df, local_today)

\* C10 as stated: whenever market_open_now is true, the previous_day bar is
\* not dated venue-local today, at every time of day, the session end included.
C10_OpenImpliesNotToday ==
    (C10_Case /\ payload.market_meta.market_open_now)
    => payload.previous_day.date # local_today

\* C10 amended: whenever market_open_now is true and the venue-local time is
\* not exactly the session end, the previous_day bar is not dated today.
C10_OpenBeforeEndImpliesNotToday ==
    ( /\ C10_Case
      /\ payload.market_meta.market_open_now
      /\ TimeOf(now) # payload.market_meta.hours_local.end )
    => payload.previous_day.date # local_today

\* C10 witness: the market is open, the last bar is dated today, and the
\* response carries the bar before it.
C10_Witness ==
    /\ C10_Case
    /\ payload.market_meta.market_open_now
    /\ TimeOf(now) < payload.market_meta.hours_local.end
    /\ df[Len(df)].date = local_today
    /\ payload.previous_day.date = df[Len(df) - 1].date
    /\ payload.previous_day.date < local_today

=============================================================================
